---- MODULE Spec2Model ----
(***************************************************************************)
(* A model of repackage::dot_crate (src/src/lib.rs): repackaging a .crate  *)
(* tarball under a new crate name.                                         *)
(*                                                                         *)
(* Strings are sequences of one-character strings, a path is a sequence of *)
(* components (each a string), and an Option is a set with at most one     *)
(* element ({} is None, {v} is Some(v)).                                   *)
(***************************************************************************)
EXTENDS Integers, Sequences, FiniteSets, TLC

\* The number of entries of the largest input archive.
MaxEntries == 2

\* The length of the longest source text of the archives of one source file.
MaxTextLen == 8

\* The length of the longest file name of the calls on any file name.
MaxFileNameLen == 5

None == {}
Some(v) == {v}
Unwrap(o) == CHOOSE v \in o : TRUE

----------------------------------------------------------------------------
(* Strings: str::find, str::rfind, str::replace, str::contains,            *)
(* char::is_ascii_digit.                                                   *)

Digits == {"0", "1", "2", "3", "4", "5", "6", "7", "8", "9"}

\* str::find(c): the index of the first c, 0 when there is none.
Find(s, c) ==
    IF \E i \in 1..Len(s) : s[i] = c
    THEN CHOOSE i \in 1..Len(s) : s[i] = c /\ \A j \in 1..(i - 1) : s[j] # c
    ELSE 0

\* str::rfind(c): the index of the last c, 0 when there is none.
RFind(s, c) ==
    IF \E i \in 1..Len(s) : s[i] = c
    THEN CHOOSE i \in 1..Len(s) : s[i] = c /\ \A j \in (i + 1)..Len(s) : s[j] # c
    ELSE 0

\* pat occurs in s at index i.
MatchAt(s, i, pat) ==
    /\ i + Len(pat) - 1 <= Len(s)
    /\ SubSeq(s, i, i + Len(pat) - 1) = pat

\* str::contains(pat)
Contains(s, pat) == \E i \in 1..(Len(s) + 1) : MatchAt(s, i, pat)

\* str::replace(from, to): every non-overlapping match of from, found left to
\* right in s, is replaced by to; the search resumes after each match, in the
\* input.  With an empty pattern, to is put around every character.
RECURSIVE ReplaceFrom(_, _, _, _)
ReplaceFrom(s, i, from, to) ==
    IF i > Len(s) THEN (IF from = <<>> THEN to ELSE <<>>)
    ELSE IF from = <<>> THEN to \o <<s[i]>> \o ReplaceFrom(s, i + 1, from, to)
    ELSE IF MatchAt(s, i, from) THEN to \o ReplaceFrom(s, i + Len(from), from, to)
    ELSE <<s[i]>> \o ReplaceFrom(s, i + 1, from, to)

StrReplace(s, from, to) == ReplaceFrom(s, 1, from, to)

----------------------------------------------------------------------------
(* std::path: a path is its sequence of components.                        *)

\* Path::file_name
FileName(p) == IF p = <<>> THEN None ELSE Some(p[Len(p)])

\* Path::with_file_name
WithFileName(p, f) == SubSeq(p, 1, Len(p) - 1) \o <<f>>

\* Path::extension: what follows the last '.', unless the file name has no
\* '.' or only a leading one.
Extension(p) ==
    IF p = <<>> THEN None
    ELSE LET f == p[Len(p)]
             d == RFind(f, ".")
         IN  IF d <= 1 THEN None ELSE Some(SubSeq(f, d + 1, Len(f)))

\* PathBuf::set_extension(""): the file name is cut down to its stem.
SetExtensionEmpty(p) ==
    IF p = <<>> THEN p
    ELSE LET f == p[Len(p)]
             d == RFind(f, ".")
         IN  IF d <= 1 THEN p ELSE WithFileName(p, SubSeq(f, 1, d - 1))

\* Path::strip_prefix: by whole components.
StripPrefix(p, base) ==
    IF Len(base) <= Len(p) /\ SubSeq(p, 1, Len(base)) = base
    THEN Some(SubSeq(p, Len(base) + 1, Len(p)))
    ELSE None

\* Path::starts_with: by whole components.
StartsWith(p, base) == StripPrefix(p, base) # None

\* Path::join of a relative path.
Join(p, q) == p \o q

----------------------------------------------------------------------------
(* The names the code spells out.                                          *)

CargoToml == <<"C", "a", "r", "g", "o", ".", "t", "o", "m", "l">>
Src == << <<"s", "r", "c">> >>
Rs == <<"r", "s">>

----------------------------------------------------------------------------
(* The name inferred from the file name, lines 68-77.                      *)

\* As Prefix, but what follows the '-' is not checked to be digits.
PrefixAnyMajor(old_fn) ==
    LET dot == Find(old_fn, ".")
    IN  IF dot = 0 THEN None
        ELSE LET dash == RFind(SubSeq(old_fn, 1, dot - 1), "-")
             IN  IF dash <= 1 THEN None ELSE Some(SubSeq(old_fn, 1, dash - 1))

Prefix(old_fn) ==
    LET dot == Find(old_fn, ".")
    IN  IF dot = 0 THEN None
        ELSE LET head == SubSeq(old_fn, 1, dot - 1)
                 dash == RFind(head, "-")
             IN  IF dash = 0 THEN None
                 ELSE LET name == SubSeq(old_fn, 1, dash - 1)
                          major == SubSeq(old_fn, dash + 1, dot - 1)
                      IN  IF /\ name # <<>>
                             /\ major # <<>>
                             /\ \A i \in 1..Len(major) : major[i] \in Digits
                          THEN Some(name)
                          ELSE None

----------------------------------------------------------------------------
(* Archive entries.  A tar header carries the entry's path, its declared   *)
(* size and a checksum over the header's fields; the entry's data is text, *)
(* bytes that are not UTF-8, or a TOML manifest (which cargo_toml parses:  *)
(* a workspace marker, an optional package and its name; "other" is the    *)
(* length of everything else the document holds).                          *)

Text(chars) == [kind |-> "text", chars |-> chars]
Binary(len) == [kind |-> "bin", len |-> len]
Toml(workspace, package, other) ==
    [kind |-> "toml", workspace |-> workspace, package |-> package, other |-> other]

\* The number of bytes of an entry's data.
ByteLen(data) ==
    CASE data.kind = "text" -> Len(data.chars)
      [] data.kind = "bin" -> data.len
      [] data.kind = "toml" ->
           data.other + (IF data.package = None THEN 0 ELSE Len(Unwrap(data.package)))

\* Header::set_cksum: the checksum is a function of the header's other fields.
Cksum(path, size) == <<path, size>>

Header(path, size) == [path |-> path, size |-> size, cksum |-> Cksum(path, size)]

\* An entry as tar::Archive::entries yields it.
Entry(path, data) == [header |-> Header(path, ByteLen(data)), data |-> data]

\* Manifest::from_slice: only a TOML manifest parses.
ManifestFromSlice(data) == IF data.kind = "toml" THEN Some(data) ELSE None

\* Read::read_to_string: only UTF-8 text reads.
ReadToString(data) == IF data.kind = "text" THEN Some(data.chars) ELSE None

\* Builder::append_data(header, path, data): sets the header's path, then its
\* checksum, and writes header and data.
AppendData(builder, header, path, data) ==
    Append(builder, [header |-> Header(path, header.size), data |-> data])

\* What a file holds: nothing (just created), or a gzipped tar archive.
EmptyFile == [kind |-> "empty"]
Crate(entries) == [kind |-> "crate", entries |-> entries]

\* The filesystem with nothing in it.
NoFiles == [p \in {} |-> EmptyFile]

\* std::fs::File::create: the file is created, or truncated if it exists.
FileCreate(files, path) == (path :> EmptyFile) @@ files

\* As RemoveFile, but the file stays.
RemoveNothing(files, path) == files

\* std::fs::remove_file
RemoveFile(files, path) == [p \in (DOMAIN files) \ {path} |-> files[p]]

\* Dropping the tar::Builder and the gzip encoder finishes the archive: the
\* file they write to, if it is still there, holds the entries appended.
DropBuilder(files, path, builder) ==
    IF path \in DOMAIN files THEN [files EXCEPT ![path] = Crate(builder)] ELSE files

----------------------------------------------------------------------------
(* The calls and archives the model starts from.                           *)

Foo == <<"f", "o", "o">>
Rat == <<"r", "a", "t">>
Rc == <<"r", "c">>
AB == <<"a", "-", "b">>
Netscape == <<"n", "e", "t", "s", "c", "a", "p", "e">>
Net == <<"n", "e", "t">>
Bar == <<"b", "a", "r">>
XY == <<"x", "-", "y">>
Zed == <<"z", "e", "d">>

FooCrate == <<"f", "o", "o", "-", "0", ".", "1", ".", "0", ".", "c", "r", "a", "t", "e">>
RatCrate == <<"r", "a", "t", "-", "0", ".", "1", ".", "0", ".", "c", "r", "a", "t", "e">>
RcCrate ==
    <<"r", "c", "-", "1", ".", "0", ".", "0", "-", "r", "c", ".", "1", ".",
      "c", "r", "a", "t", "e">>
ABCrate == <<"a", "-", "b", "-", "0", ".", "1", ".", "0", ".", "c", "r", "a", "t", "e">>
NetscapeCrate ==
    <<"n", "e", "t", "s", "c", "a", "p", "e", "-", "0", ".", "1", ".", "0", ".",
      "c", "r", "a", "t", "e">>
NoDashCrate == <<"f", "o", "o", ".", "c", "r", "a", "t", "e">>
NoDigitCrate == <<"f", "o", "o", "-", "x", ".", "1", ".", "c", "r", "a", "t", "e">>
NoNameCrate == <<"-", "0", ".", "1", ".", "0", ".", "c", "r", "a", "t", "e">>

Baz == <<"b", "a", "z">>
Tests == <<"t", "e", "s", "t", "s">>
LibRs == <<"l", "i", "b", ".", "r", "s">>
ItRs == <<"i", "t", ".", "r", "s">>
ReadmeMd == <<"R", "E", "A", "D", "M", "E", ".", "m", "d">>
Elsewhere == <<"e", "l", "s", "e", "w", "h", "e", "r", "e", "-", "0", ".", "1", ".", "0">>

\* Crate names: those of the file names below, and one of no file.
CrateNames == {Foo, Rat, Rc, AB, Netscape}

\* File names a name is inferred from, and file names none is inferred from.
FileNames ==
    {FooCrate, RatCrate, RcCrate, ABCrate, NetscapeCrate,
     NoDashCrate, NoDigitCrate, NoNameCrate}

\* The paths dot_crate is called with: a file in baz/, or a path with no file name.
DotCratePaths == {<<Baz, f>> : f \in FileNames} \cup {<<>>}

OldNameOpts == {None, Some(Foo), Some(Net), Some(<<>>)}

NewNames == {Bar, XY, Foo}

\* The crate names a file name starts with (followed by '-').
NamesOf(f) == {n \in CrateNames : MatchAt(f, 1, n \o <<"-">>)}

\* The identifier a crate is referred to by in Rust source.
Ident(n) == [i \in 1..Len(n) |-> IF n[i] = "-" THEN "_" ELSE n[i]]

\* Source text that names the crate id: one path after a space; two of them;
\* the crate's name inside other paths only; and paths after no space, after a
\* space and after a tab.
OnePath(id) == <<" ">> \o id \o <<":", ":", "f">>
TwoPaths(id) == <<" ">> \o id \o <<":", ":", " ">> \o id \o <<":", ":">>
OtherPaths(id) ==
    <<"x", "_">> \o id \o <<":", ":", "b", " ", "x", ":", ":">> \o id \o <<":", ":", "b">>
MixedPaths(id) ==
    id \o <<":", ":", "a", " ">> \o id \o <<":", ":", "b", "\t">> \o id \o <<":", ":", "c">>

\* The manifests of an archive: of a package (of the file's name, or of
\* another), of a workspace, of neither, and one that is not TOML.
Manifests(f) ==
    {Toml(w, pkg, 9) : w \in BOOLEAN,
                       pkg \in {None} \cup {Some(n) : n \in NamesOf(f) \cup {Zed}}}
        \cup {Binary(9)}

\* The entries of an archive of the file f, whose base directory is dir.
EntriesOf(f, dir) ==
    LET ids == {Ident(n) : n \in NamesOf(f) \cup (IF NamesOf(f) = {} THEN {Foo} ELSE {})}
    IN  {Entry(<<dir, CargoToml>>, m) : m \in Manifests(f)}
        \cup {Entry(<<dir, Src[1], LibRs>>, Text(MixedPaths(id))) : id \in ids}
        \cup {Entry(<<dir, Tests, ItRs>>, Text(t)) :
                t \in UNION {{TwoPaths(id), OtherPaths(id), MixedPaths(id)} : id \in ids}}
        \cup {Entry(<<dir, Tests, ItRs>>, Binary(3))}
        \cup {Entry(<<dir, ReadmeMd>>, Text(OnePath(id))) : id \in ids}
        \cup {Entry(<<Elsewhere, ReadmeMd>>, Text(<<>>))}

\* The archives at a path: up to MaxEntries entries under the directory named
\* as the file without its extension, or (one entry) elsewhere.
ArchivesAt(path) ==
    IF path = <<>> THEN {}
    ELSE LET f == path[Len(path)]
             dir == SetExtensionEmpty(<<f>>)[1]
         IN  UNION {[1..n -> EntriesOf(f, dir)] : n \in 0..MaxEntries}

\* The filesystems a call starts in: the .crate file holds an archive, or
\* there is no such file.
FileSystemsAt(path) == {NoFiles} \cup {(path :> Crate(a)) : a \in ArchivesAt(path)}

----------------------------------------------------------------------------
VARIABLES
    dot_crate_path,   \* the argument dot_crate
    old_name_opt,     \* the argument old_name
    new_name,         \* the argument new_name
    fs,               \* the files: path -> what the file holds
    fs0,              \* the files when dot_crate was called
    pc,               \* where the call is: resolve, create, open, loop, done
    result,           \* "running", "ok" or the error returned
    old_fn,           \* line 43
    old_name,         \* line 87
    repackaged_path,  \* line 92
    dot_crate,        \* line 99: what the archive reader reads
    from,             \* line 130
    to,               \* line 131
    old_base_dir,     \* line 135
    new_base_dir,     \* line 140
    got_cargo_toml,   \* line 146
    file_bytes,       \* line 147
    pos,              \* the number of entries the loop has taken from dot_crate
    repackaged        \* line 101: the entries appended to the tar::Builder

vars ==
    <<dot_crate_path, old_name_opt, new_name, fs, fs0, pc, result, old_fn, old_name,
      repackaged_path, dot_crate, from, to, old_base_dir, new_base_dir,
      got_cargo_toml, file_bytes, pos, repackaged>>

args == <<dot_crate_path, old_name_opt, new_name, fs0>>
names == <<old_fn, old_name>>
derived == <<from, to, old_base_dir, new_base_dir>>

Init ==
    /\ dot_crate_path \in DotCratePaths
    /\ old_name_opt \in OldNameOpts
    /\ new_name \in NewNames
    /\ fs \in FileSystemsAt(dot_crate_path)
    /\ fs0 = fs
    /\ pc = "resolve"
    /\ result = "running"
    /\ old_fn = <<>>
    /\ old_name = <<>>
    /\ repackaged_path = <<>>
    /\ dot_crate = EmptyFile
    /\ from = <<>>
    /\ to = <<>>
    /\ old_base_dir = <<>>
    /\ new_base_dir = <<>>
    /\ got_cargo_toml = FALSE
    /\ file_bytes = <<>>
    /\ pos = 0
    /\ repackaged = <<>>

\* Returning: the call is over with result r.
Return(r) == pc' = "done" /\ result' = r

\* Lines 39-89: the file name, the name inferred from it, the old name.
ResolveName ==
    /\ pc = "resolve"
    /\ UNCHANGED <<args, fs, repackaged_path, dot_crate, derived, got_cargo_toml,
                   file_bytes, pos, repackaged>>
    /\ IF FileName(dot_crate_path) = None
       THEN Return("InvalidInputPath") /\ UNCHANGED names
       ELSE LET fn == Unwrap(FileName(dot_crate_path))
                prefix == Prefix(fn)
            IN  /\ old_fn' = fn
                /\ IF old_name_opt # None /\ prefix # old_name_opt
                   THEN Return("NameMismatch") /\ UNCHANGED old_name
                   ELSE IF old_name_opt # None
                   THEN /\ old_name' = Unwrap(old_name_opt)
                        /\ pc' = "create"
                        /\ UNCHANGED result
                   ELSE IF prefix # None
                   THEN /\ old_name' = Unwrap(prefix)
                        /\ pc' = "create"
                        /\ UNCHANGED result
                   ELSE Return("NameInferenceFailed") /\ UNCHANGED old_name

\* Lines 91-93: the output file is created beside the input file.
CreateRepackaged ==
    /\ pc = "create"
    /\ LET repackaged_fn == StrReplace(old_fn, old_name, new_name)
       IN  repackaged_path' = WithFileName(dot_crate_path, repackaged_fn)
    /\ fs' = FileCreate(fs, repackaged_path')
    /\ pc' = "open"
    /\ UNCHANGED <<args, result, names, dot_crate, derived, got_cargo_toml,
                   file_bytes, pos, repackaged>>

\* Lines 94-147: the input file is opened, and the loop's constants are set.
OpenDotCrate ==
    /\ pc = "open"
    /\ UNCHANGED <<args, fs, names, repackaged_path, pos, repackaged>>
    /\ IF dot_crate_path \notin DOMAIN fs
       THEN /\ Return("IoError")
            /\ UNCHANGED <<dot_crate, derived, got_cargo_toml, file_bytes>>
       ELSE /\ dot_crate' = fs[dot_crate_path]
            /\ from' = <<" ">> \o StrReplace(old_name, <<"-">>, <<"_">>) \o <<":", ":">>
            /\ to' = <<" ">> \o StrReplace(new_name, <<"-">>, <<"_">>) \o <<":", ":">>
            /\ old_base_dir' = SetExtensionEmpty(<<old_fn>>)
            /\ new_base_dir' =
                   SetExtensionEmpty(<<StrReplace(old_fn, old_name, new_name)>>)
            /\ got_cargo_toml' = FALSE
            /\ file_bytes' = <<>>
            /\ pc' = "loop"
            /\ UNCHANGED result

----------------------------------------------------------------------------
(* The loop over the entries, lines 148-242.                               *)

\* The reader has an entry to yield.
HasNext == dot_crate.kind = "crate" /\ pos < Len(dot_crate.entries)

\* Line 152: the entry the loop is at.
File == dot_crate.entries[pos + 1]

\* Line 155: the entry's path under the old base directory, if it is there.
SubPath(file) == StripPrefix(file.header.path, old_base_dir)

\* As NewPath, but the path keeps the old base directory.
NewPathUnderOldBase(file) == Join(old_base_dir, Unwrap(SubPath(file)))

\* Line 161: the entry's path in the output.
NewPath(file) == Join(new_base_dir, Unwrap(SubPath(file)))

\* Line 163: the entry is a manifest.
IsCargoToml(path) == FileName(path) = Some(CargoToml)

\* Line 199: the entry is a source file to rewrite.
IsRewrittenRs(path) == ~StartsWith(path, Src) /\ Extension(path) = Some(Rs)

\* As Rewritten, but only the first match is replaced (str::replacen(.., 1)).
RewrittenFirstOnly(text) ==
    IF Contains(text, from)
    THEN LET i == CHOOSE i \in 1..Len(text) :
                      MatchAt(text, i, from) /\ \A j \in 1..(i - 1) : ~MatchAt(text, j, from)
         IN  SubSeq(text, 1, i - 1) \o to \o SubSeq(text, i + Len(from), Len(text))
    ELSE text

\* Lines 229-233: the text with from replaced by to.
Rewritten(text) == IF Contains(text, from) THEN StrReplace(text, from, to) ELSE text

\* An error leaves the loop: the builder is dropped on the way out.
Fail(r) ==
    /\ Return(r)
    /\ fs' = DropBuilder(fs, repackaged_path, repackaged)
    /\ UNCHANGED <<repackaged, got_cargo_toml>>

\* Line 152: the input is no gzipped tar archive (it is empty).
WalkEntryError ==
    /\ pc = "loop"
    /\ dot_crate.kind # "crate"
    /\ Fail("WalkEntryError")
    /\ UNCHANGED <<args, names, repackaged_path, dot_crate, derived, file_bytes, pos>>

\* Lines 155-160: an entry that is not under the old base directory.
EntryOutside ==
    /\ pc = "loop"
    /\ HasNext
    /\ SubPath(File) = None
    /\ pos' = pos + 1
    /\ Fail("EntryOutsidePackageRoot")
    /\ UNCHANGED <<args, names, repackaged_path, dot_crate, derived, file_bytes>>

\* As ManifestEntry, but the package and its name are checked before the
\* workspace marker.
ManifestEntryPackageFirst ==
    /\ pc = "loop"
    /\ HasNext
    /\ SubPath(File) # None
    /\ IsCargoToml(NewPath(File))
    /\ pos' = pos + 1
    /\ UNCHANGED <<args, names, repackaged_path, dot_crate, derived, file_bytes>>
    /\ LET path == NewPath(File)
           parsed == ManifestFromSlice(File.data)
       IN  IF parsed = None THEN Fail("ManifestParseError")
           ELSE LET manifest == Unwrap(parsed)
                IN  IF manifest.package = None THEN Fail("MissingPackageSection")
                    ELSE IF Unwrap(manifest.package) # old_name THEN Fail("NameMismatch")
                    ELSE IF manifest.workspace THEN Fail("WorkspaceNotSupported")
                    ELSE LET bytes == [manifest EXCEPT !.package = Some(new_name)]
                             header == [File.header EXCEPT !.size = ByteLen(bytes)]
                         IN  /\ repackaged' = AppendData(repackaged, header, path, bytes)
                             /\ got_cargo_toml' = TRUE
                             /\ UNCHANGED <<fs, pc, result>>

\* Lines 163-198: the manifest is parsed, checked, renamed and appended.
ManifestEntry ==
    /\ pc = "loop"
    /\ HasNext
    /\ SubPath(File) # None
    /\ IsCargoToml(NewPath(File))
    /\ pos' = pos + 1
    /\ UNCHANGED <<args, names, repackaged_path, dot_crate, derived, file_bytes>>
    /\ LET path == NewPath(File)
           parsed == ManifestFromSlice(File.data)
       IN  IF parsed = None THEN Fail("ManifestParseError")
           ELSE LET manifest == Unwrap(parsed)
                IN  IF manifest.workspace THEN Fail("WorkspaceNotSupported")
                    ELSE IF manifest.package = None THEN Fail("MissingPackageSection")
                    ELSE IF Unwrap(manifest.package) # old_name THEN Fail("NameMismatch")
                    ELSE LET bytes == [manifest EXCEPT !.package = Some(new_name)]
                             header == [File.header EXCEPT !.size = ByteLen(bytes)]
                         IN  /\ repackaged' = AppendData(repackaged, header, path, bytes)
                             /\ got_cargo_toml' = TRUE
                             /\ UNCHANGED <<fs, pc, result>>

\* Lines 199-236: a .rs file is read, rewritten and appended.
RewriteEntry ==
    /\ pc = "loop"
    /\ HasNext
    /\ SubPath(File) # None
    /\ ~IsCargoToml(NewPath(File))
    /\ IsRewrittenRs(NewPath(File))
    /\ pos' = pos + 1
    /\ UNCHANGED <<args, names, repackaged_path, dot_crate, derived>>
    /\ LET path == NewPath(File)
           read == ReadToString(File.data)
       IN  IF read = None
           THEN Fail("IoError") /\ file_bytes' = <<>>
           ELSE LET text == Rewritten(Unwrap(read))
                    header == [File.header EXCEPT !.size = Len(text)]
                IN  /\ file_bytes' = Unwrap(read)
                    /\ repackaged' = AppendData(repackaged, header, path, Text(text))
                    /\ UNCHANGED <<fs, pc, result, got_cargo_toml>>

\* Lines 237-241: any other entry is appended as it is.
PassthroughEntry ==
    /\ pc = "loop"
    /\ HasNext
    /\ SubPath(File) # None
    /\ ~IsCargoToml(NewPath(File))
    /\ ~IsRewrittenRs(NewPath(File))
    /\ pos' = pos + 1
    /\ repackaged' = AppendData(repackaged, File.header, NewPath(File), File.data)
    /\ UNCHANGED <<args, fs, pc, result, names, repackaged_path, dot_crate, derived,
                   got_cargo_toml, file_bytes>>

\* Lines 244-253: after the last entry.
Finish ==
    /\ pc = "loop"
    /\ dot_crate.kind = "crate"
    /\ pos = Len(dot_crate.entries)
    /\ IF ~got_cargo_toml
       THEN /\ fs' = RemoveFile(fs, repackaged_path)
            /\ Return("MissingManifest")
       ELSE /\ fs' = DropBuilder(fs, repackaged_path, repackaged)
            /\ Return("ok")
    /\ UNCHANGED <<args, names, repackaged_path, dot_crate, derived, got_cargo_toml,
                   file_bytes, pos, repackaged>>

Next ==
    \/ ResolveName
    \/ CreateRepackaged
    \/ OpenDotCrate
    \/ WalkEntryError
    \/ EntryOutside
    \/ ManifestEntry
    \/ RewriteEntry
    \/ PassthroughEntry
    \/ Finish

Spec == Init /\ [][Next]_vars

----------------------------------------------------------------------------
(* The calls above, and calls on a-0.1.0.crate holding one source file     *)
(* outside src/ with any text of spaces, a's and colons.                   *)

A == <<"a">>
AA == <<"a", "a">>
ACrate == <<"a", "-", "0", ".", "1", ".", "0", ".", "c", "r", "a", "t", "e">>

Texts == UNION {[1..n -> {" ", "a", ":"}] : n \in 0..MaxTextLen}

InitTexts ==
    /\ dot_crate_path = <<Baz, ACrate>>
    /\ old_name_opt \in {None, Some(A)}
    /\ new_name \in {Bar, AA}
    /\ fs \in {(dot_crate_path :>
                   Crate(<<Entry(<<SetExtensionEmpty(<<ACrate>>)[1], Tests, ItRs>>, Text(t))>>)) :
               t \in Texts}
    /\ fs0 = fs
    /\ pc = "resolve"
    /\ result = "running"
    /\ old_fn = <<>>
    /\ old_name = <<>>
    /\ repackaged_path = <<>>
    /\ dot_crate = EmptyFile
    /\ from = <<>>
    /\ to = <<>>
    /\ old_base_dir = <<>>
    /\ new_base_dir = <<>>
    /\ got_cargo_toml = FALSE
    /\ file_bytes = <<>>
    /\ pos = 0
    /\ repackaged = <<>>

SpecTexts == (Init \/ InitTexts) /\ [][Next]_vars

----------------------------------------------------------------------------
(* The calls above, and calls on a file of any name made of a's, dashes,   *)
(* zeros and dots ("." and ".." are no file names), where there is no such *)
(* file.                                                                   *)

AnyFileNames ==
    UNION {[1..n -> {"a", "-", "0", "."}] : n \in 1..MaxFileNameLen}
        \ {<<".">>, <<".", ".">>}

InitFileNames ==
    /\ dot_crate_path \in {<<Baz, f>> : f \in AnyFileNames}
    /\ old_name_opt \in {None, Some(A), Some(AA), Some(<<>>)}
    /\ new_name = Bar
    /\ fs = NoFiles
    /\ fs0 = fs
    /\ pc = "resolve"
    /\ result = "running"
    /\ old_fn = <<>>
    /\ old_name = <<>>
    /\ repackaged_path = <<>>
    /\ dot_crate = EmptyFile
    /\ from = <<>>
    /\ to = <<>>
    /\ old_base_dir = <<>>
    /\ new_base_dir = <<>>
    /\ got_cargo_toml = FALSE
    /\ file_bytes = <<>>
    /\ pos = 0
    /\ repackaged = <<>>

SpecFileNames == (Init \/ InitFileNames) /\ [][Next]_vars

----------------------------------------------------------------------------
(* What the properties below speak of.                                     *)

\* The entries of the archive dot_crate was called on.
InputEntries ==
    IF dot_crate_path \in DOMAIN fs0 THEN fs0[dot_crate_path].entries ELSE <<>>

\* The file name dot_crate was called on.
InputFileName == dot_crate_path[Len(dot_crate_path)]

DotCrateExt == <<".", "c", "r", "a", "t", "e">>

\* The directory the entries of the input are expected under: the file name
\* without ".crate".
InputBaseDir == SubSeq(InputFileName, 1, Len(InputFileName) - Len(DotCrateExt))

\* The file name is a-v.crate.
IsNameVersion(f, a, v) == f = a \o <<"-">> \o v \o DotCrateExt

\* The versions v with f = a-v.crate.
VersionsOf(f, a) ==
    {v \in {SubSeq(f, Len(a) + 2, Len(f) - Len(DotCrateExt))} : IsNameVersion(f, a, v)}

\* An entry's path below the archive's top directory.
Below(e) == SubSeq(e.header.path, 2, Len(e.header.path))

\* An entry named Cargo.toml.
NamedCargoToml(e) ==
    e.header.path # <<>> /\ e.header.path[Len(e.header.path)] = CargoToml

\* An entry with the .rs extension.
NamedRs(e) ==
    /\ e.header.path # <<>>
    /\ LET f == e.header.path[Len(e.header.path)]
       IN  Len(f) > 3 /\ SubSeq(f, Len(f) - 2, Len(f)) = <<".", "r", "s">>

\* An entry in the package's src/ subtree.
UnderSrc(e) == Len(e.header.path) >= 2 /\ e.header.path[2] = <<"s", "r", "c">>

\* An entry the substitution is meant for: a .rs file outside src/.
Eligible(e) == NamedRs(e) /\ ~UnderSrc(e) /\ ~NamedCargoToml(e)

----------------------------------------------------------------------------
\* C1: a successful call on a valid archive a-v.crate, whose manifest declares
\* the package a and whose entries are all under a-v, with the new name b,
\* writes an archive whose manifest declares exactly b and whose entries are
\* all under b-v, whatever a, b and v are.
C1_RoundTripName ==
    (pc = "done" /\ result = "ok") =>
        \A a \in CrateNames : \A v \in VersionsOf(InputFileName, a) :
            (/\ \A i \in 1..Len(InputEntries) :
                    /\ InputEntries[i].header.path[1] = a \o <<"-">> \o v
                    /\ NamedCargoToml(InputEntries[i]) =>
                           InputEntries[i].data.package = Some(a))
            => \A i \in 1..Len(repackaged) :
                    /\ repackaged[i].header.path[1] = new_name \o <<"-">> \o v
                    /\ NamedCargoToml(repackaged[i]) =>
                           repackaged[i].data.package = Some(new_name)

\* C2: for the input file dir/old-version.ext the output file is
\* dir/new-version.ext: the same directory, the same version and extension,
\* only the crate's name changed.
C2_OutputFileNaming ==
    (pc \in {"open", "loop", "done"} /\ repackaged_path # <<>>) =>
        \E rest \in {SubSeq(InputFileName, Len(old_name) + 1, Len(InputFileName))} :
            /\ InputFileName = old_name \o rest
            /\ repackaged_path = WithFileName(dot_crate_path, new_name \o rest)

\* C3: an entry under the package's src/ is written with the content it had,
\* also when that content holds the pattern " old::".
C3_SrcNeverRewritten ==
    \A i \in 1..Len(repackaged) :
        UnderSrc(InputEntries[i]) => repackaged[i].data = InputEntries[i].data

\* C7: an entry that is neither named Cargo.toml nor an eligible source file
\* (.rs, outside src/) is written with the content and the declared size it had.
C7_Passthrough ==
    \A i \in 1..Len(repackaged) :
        (~NamedCargoToml(InputEntries[i]) /\ ~Eligible(InputEntries[i])) =>
            /\ repackaged[i].data = InputEntries[i].data
            /\ repackaged[i].header.size = InputEntries[i].header.size

\* C10: whatever the call does and whatever the names are, the input file is
\* there at every moment with the content it had when dot_crate was called.
C10_InputUntouched ==
    dot_crate_path \in DOMAIN fs0 =>
        /\ dot_crate_path \in DOMAIN fs
        /\ fs[dot_crate_path] = fs0[dot_crate_path]

----------------------------------------------------------------------------
(* The substitution, said without the code's pass over the text.           *)

\* The pattern of a crate name: a space, the name with '_' for '-', and "::".
PatternOf(n) == <<" ">> \o Ident(n) \o <<":", ":">>

\* The places of s where f occurs.
Occurrences(s, f) ==
    {i \in 1..Len(s) :
        i + Len(f) - 1 <= Len(s) /\ \A k \in 1..Len(f) : s[i + k - 1] = f[k]}

\* o is s with every occurrence of f replaced by t and nothing else changed:
\* each occurrence has become t, each character outside the occurrences is
\* where the replacements before it have moved it, and the length accounts
\* for nothing else.
IsReplacedAll(s, f, t, o) ==
    LET occ == Occurrences(s, f)
        moved(p) == p + Cardinality({i \in occ : i < p}) * (Len(t) - Len(f))
    IN  /\ Len(o) = Len(s) + Cardinality(occ) * (Len(t) - Len(f))
        /\ \A p \in occ : \A k \in 1..Len(t) : o[moved(p) + k - 1] = t[k]
        /\ \A p \in 1..Len(s) :
               (\A i \in occ : p < i \/ p >= i + Len(f)) => o[moved(p)] = s[p]

\* C4: an eligible .rs entry is written with every occurrence of " old::"
\* replaced by " new::" ('-' in the names read as '_'), in one pass, and with
\* every other character as it was: "old::" after anything but a space stays.
C4_BoundarySafeSubstitution ==
    \A i \in 1..Len(repackaged) :
        (Eligible(InputEntries[i]) /\ InputEntries[i].data.kind = "text") =>
            /\ repackaged[i].data.kind = "text"
            /\ IsReplacedAll(InputEntries[i].data.chars, PatternOf(old_name),
                             PatternOf(new_name), repackaged[i].data.chars)

\* A text with the pattern twice, and with the name after no space, rewritten.
C4_Witness ==
    /\ \E i \in 1..Len(repackaged) :
           /\ Eligible(InputEntries[i])
           /\ InputEntries[i].data.kind = "text"
           /\ Cardinality(Occurrences(InputEntries[i].data.chars, PatternOf(old_name))) = 2
           /\ repackaged[i].data # InputEntries[i].data
    /\ \E i \in 1..Len(repackaged) :
           /\ Eligible(InputEntries[i])
           /\ InputEntries[i].data = Text(OtherPaths(Ident(old_name)))
           /\ repackaged[i].data = InputEntries[i].data
    /\ "-" \in {new_name[k] : k \in 1..Len(new_name)}

----------------------------------------------------------------------------
(* The name of a file, said without the code's search.                     *)

\* The names a file name gives: what is before a '-' that is followed by
\* one or more digits and then the first '.' of the file name.
InferredNames(f) ==
    {SubSeq(f, 1, d - 1) : d \in
        {d \in 1..Len(f) :
            /\ f[d] = "-"
            /\ \E k \in (d + 2)..Len(f) :
                   /\ f[k] = "."
                   /\ \A j \in 1..(k - 1) : f[j] # "."
                   /\ \A j \in (d + 1)..(k - 1) : f[j] \in Digits}}

\* C5: with an old name given, the call fails unless that name is the one
\* inferred from the file name; a prefix of the file name is not enough, a
\* given name does not make up for a file name that gives none, and on this
\* failure no file has been created and no entry read.
C5_PrefixRejection ==
    (/\ pc # "resolve"
     /\ old_name_opt # None
     /\ \/ dot_crate_path = <<>>
        \/ Unwrap(old_name_opt) \notin InferredNames(InputFileName))
    => /\ pc = "done"
       /\ result \notin {"running", "ok"}
       /\ fs = fs0
       /\ pos = 0
       /\ repackaged = <<>>

\* netscape-0.1.0.crate with the old name net has failed.
C5_Witness ==
    /\ pc = "done"
    /\ dot_crate_path # <<>>
    /\ InputFileName = NetscapeCrate
    /\ old_name_opt = Some(Net)
    /\ result = "NameMismatch"
    /\ InputEntries # <<>>

----------------------------------------------------------------------------
\* C6: when the loop has gone through an archive with no entry named
\* Cargo.toml, the call returns MissingManifest and there is no file at the
\* output path.
C6_MissingManifestCleanup ==
    (/\ pc = "done"
     /\ dot_crate.kind = "crate"
     /\ Len(repackaged) = Len(InputEntries)
     /\ \A i \in 1..Len(InputEntries) : ~NamedCargoToml(InputEntries[i]))
    => /\ result = "MissingManifest"
       /\ repackaged_path \notin DOMAIN fs

\* Two entries were appended, none a manifest, and the call has returned.
C6_Witness ==
    /\ pc = "done"
    /\ result = "MissingManifest"
    /\ Len(repackaged) = 2
    /\ repackaged_path \notin DOMAIN fs

----------------------------------------------------------------------------
\* An entry named Cargo.toml under the old base directory whose manifest has
\* the workspace marker.
WorkspaceManifest(e) ==
    /\ NamedCargoToml(e)
    /\ e.header.path[1] = InputBaseDir
    /\ e.data.kind = "toml"
    /\ e.data.workspace

\* C8: once the loop takes a manifest with the workspace marker, the call has
\* failed with WorkspaceNotSupported, with or without a package in the
\* manifest and whatever its name, and the manifest has not been appended; no
\* call on an archive with such a manifest succeeds.
C8_WorkspaceRejection ==
    /\ \A i \in 1..pos :
           WorkspaceManifest(InputEntries[i]) =>
               /\ pc = "done"
               /\ result = "WorkspaceNotSupported"
               /\ pos = i
               /\ Len(repackaged) = i - 1
    /\ result = "ok" =>
           \A i \in 1..Len(InputEntries) : ~WorkspaceManifest(InputEntries[i])

\* A workspace manifest with no package, taken after another entry, rejected.
C8_Witness ==
    /\ pc = "done"
    /\ result = "WorkspaceNotSupported"
    /\ pos = 2
    /\ WorkspaceManifest(InputEntries[2])
    /\ InputEntries[2].data.package = None

----------------------------------------------------------------------------
\* The first entry that is not under the old base directory, 0 if none.
FirstOutside ==
    LET out == {i \in 1..Len(InputEntries) : InputEntries[i].header.path[1] # InputBaseDir}
    IN  IF out = {} THEN 0 ELSE CHOOSE i \in out : \A j \in out : i <= j

\* C9: at every point of the loop the entries appended are the input entries
\* taken so far, in their order, each once and under the new base directory
\* with its path below the old one; an entry that is not under the old base
\* directory ends the call with EntryOutsidePackageRoot, and neither it nor a
\* later entry is appended.
C9_OrderExactlyOnce ==
    dot_crate_path # <<>> =>
        /\ Len(repackaged) <= Len(InputEntries)
        /\ \A i \in 1..Len(repackaged) :
               /\ InputEntries[i].header.path[1] = InputBaseDir
               /\ repackaged[i].header.path = new_base_dir \o Below(InputEntries[i])
               /\ repackaged[i].data.kind = InputEntries[i].data.kind
        /\ pc = "loop" => Len(repackaged) = pos
        /\ result = "ok" => Len(repackaged) = Len(InputEntries)
        /\ (FirstOutside # 0 /\ pos >= FirstOutside) =>
               /\ pc = "done"
               /\ result = "EntryOutsidePackageRoot"
               /\ Len(repackaged) = FirstOutside - 1

\* Two entries of different paths were appended, in their order.
C9_Witness ==
    /\ pc = "done"
    /\ result = "ok"
    /\ Len(repackaged) = 2
    /\ repackaged[1].header.path # repackaged[2].header.path
    /\ ~NamedCargoToml(InputEntries[1])

====
